---- MODULE Spec2Model ----
(***************************************************************************)
(* Macro expansion of pw_preprocessor/macro_arg_count.h.                   *)
(*                                                                         *)
(* The header is a set of #define lines; what it "does" is what the C      *)
(* preprocessor rewrites an invocation of PW_ARG_COUNT, PW_HAS_ARGS,       *)
(* PW_HAS_NO_ARGS or PW_COMMA_ARGS into.  Every #define is a record         *)
(* (parameters, variadic or not, replacement list) under its own name, and *)
(* the state machine is the rewriting of one invocation: collecting the    *)
(* arguments of a function-like macro, expanding each argument on its own, *)
(* substituting, pasting with ##, and rescanning the result together with  *)
(* the tokens that follow.                                                 *)
(***************************************************************************)
EXTENDS Integers, Sequences, FiniteSets, TLC

VARIABLES invocation, stack, phase, diag, pasted, blocked, round, prev, steps

vars == <<invocation, stack, phase, diag, pasted, blocked, round, prev, steps>>

(***************************************************************************)
(* Bounds of the model.                                                    *)
(***************************************************************************)
\* longest argument list of an invocation (above the ceiling of 64)
MaxArgs == 66
\* longest argument list whose items are drawn freely from ItemKinds
MaxMixed == 2
\* longest argument list expanded twice in SpecTwice
MaxTwice == 3
\* rewriting steps one invocation may take
MaxSteps == 40

\* the documented ceiling: "an integer literal in the range 0 to 64"
MaxCount == 64

(***************************************************************************)
(* Tokens.  A token is its spelling and its hide set: the macros whose     *)
(* replacement it came out of, which may not replace it again.             *)
(***************************************************************************)
Tok(s) == [s |-> s, hs |-> {}]

Toks(ss) == [i \in 1..Len(ss) |-> Tok(ss[i])]

Strs(ts) == [i \in 1..Len(ts) |-> ts[i].s]

IsPunct(s) == s \in {",", "(", ")"}

\* a1, a2, ..., an  ->  a1 , a2 , ... , an
CommaSep(ss) ==
  [i \in 1..(IF Len(ss) = 0 THEN 0 ELSE 2 * Len(ss) - 1) |->
     IF i % 2 = 1 THEN ss[(i + 1) \div 2] ELSE ","]

\* the concatenation of seqs[lo..hi]
RECURSIVE FlattenIn(_, _, _)
FlattenIn(seqs, lo, hi) ==
  IF lo > hi THEN <<>>
  ELSE IF lo = hi THEN seqs[lo]
  ELSE FlattenIn(seqs, lo, (lo + hi) \div 2) \o FlattenIn(seqs, (lo + hi) \div 2 + 1, hi)

Flatten(seqs) == FlattenIn(seqs, 1, Len(seqs))

\* the positions lo..hi at which flags holds, in order
RECURSIVE PositionsIn(_, _, _)
PositionsIn(flags, lo, hi) ==
  IF lo > hi THEN <<>>
  ELSE IF lo = hi THEN IF flags[lo] THEN <<lo>> ELSE <<>>
  ELSE PositionsIn(flags, lo, (lo + hi) \div 2)
         \o PositionsIn(flags, (lo + hi) \div 2 + 1, hi)

Positions(flags) == PositionsIn(flags, 1, Len(flags))

First(flags) == LET ps == Positions(flags) IN IF ps = <<>> THEN 0 ELSE ps[1]

\* the items of an argument list, separated by commas
JoinItems(items) ==
  Flatten([i \in 1..(IF Len(items) = 0 THEN 0 ELSE 2 * Len(items) - 1) |->
             IF i % 2 = 1 THEN items[(i + 1) \div 2] ELSE <<",">>])

(***************************************************************************)
(* The #define lines.  A parameter is named in the replacement list by its *)
(* own spelling, the variadic arguments by "__VA_ARGS__".                  *)
(***************************************************************************)
FnMacro(params, va, body) == [fn |-> TRUE, params |-> params, va |-> va, body |-> body]

ObjMacro(body) == [fn |-> FALSE, params |-> <<>>, va |-> FALSE, body |-> body]

\* a faulty list: one sentinel short at the top, 63, 62, ..., 1
CountSentinelsLow == [i \in 1..(MaxCount - 1) |-> ToString(MaxCount - i)]

\* 64, 63, ..., 2
CountSentinels == [i \in 1..(MaxCount - 1) |-> ToString(MaxCount + 1 - i)]

\* a faulty list: 64 times 1, the closing 0 forgotten
CommaSentinelsAllOnes == [i \in 1..MaxCount |-> "1"]

\* 63 times 1, then 0
CommaSentinels == [i \in 1..MaxCount |-> IF i < MaxCount THEN "1" ELSE "0"]

\* a faulty parameter list: a63, ..., a01, count, one slot short
ImplParamsShort ==
  [i \in 1..MaxCount |->
     IF i = MaxCount THEN "count"
     ELSE IF MaxCount - i < 10 THEN "a0" \o ToString(MaxCount - i)
     ELSE "a" \o ToString(MaxCount - i)]

\* a64, a63, ..., a01, count
ImplParams ==
  [i \in 1..(MaxCount + 1) |->
     IF i = MaxCount + 1 THEN "count"
     ELSE IF MaxCount + 1 - i < 10 THEN "a0" \o ToString(MaxCount + 1 - i)
     ELSE "a" \o ToString(MaxCount + 1 - i)]

PW_ARG_COUNT ==
  FnMacro(<<>>, TRUE,
          <<"_PW_ARG_COUNT_IMPL", "(", "__VA_ARGS__", ",">>
            \o CommaSep(CountSentinels)
            \o <<",", "PW_HAS_ARGS", "(", "__VA_ARGS__", ")", ")">>)

PW_HAS_ARGS ==
  FnMacro(<<>>, TRUE,
          <<"PW_NOT", "(", "PW_HAS_NO_ARGS", "(", "__VA_ARGS__", ")", ")">>)

\* a faulty emptiness test: the third probe left out, its bit fixed at 0
ThreeProbes ==
  FnMacro(<<>>, TRUE,
          <<"_PW_HAS_NO_ARGS", "(",
            "_PW_HAS_COMMA", "(", "__VA_ARGS__", ")", ",",
            "_PW_HAS_COMMA", "(", "_PW_MAKE_COMMA_IF_CALLED", "__VA_ARGS__", ")", ",",
            "0", ",",
            "_PW_HAS_COMMA", "(", "_PW_MAKE_COMMA_IF_CALLED", "__VA_ARGS__", "(", ")", ")",
            ")">>)

PW_HAS_NO_ARGS ==
  FnMacro(<<>>, TRUE,
          <<"_PW_HAS_NO_ARGS", "(",
            "_PW_HAS_COMMA", "(", "__VA_ARGS__", ")", ",",
            "_PW_HAS_COMMA", "(", "_PW_MAKE_COMMA_IF_CALLED", "__VA_ARGS__", ")", ",",
            "_PW_HAS_COMMA", "(", "__VA_ARGS__", "(", ")", ")", ",",
            "_PW_HAS_COMMA", "(", "_PW_MAKE_COMMA_IF_CALLED", "__VA_ARGS__", "(", ")", ")",
            ")">>)

_PW_HAS_COMMA ==
  FnMacro(<<>>, TRUE,
          <<"_PW_ARG_COUNT_IMPL", "(", "__VA_ARGS__", ",">>
            \o CommaSep(CommaSentinels) \o <<")">>)

_PW_ARG_COUNT_IMPL == FnMacro(ImplParams, TRUE, <<"count">>)

\* a faulty lookup: the probes pasted where they are written, before they are expanded
PasteInPlace ==
  FnMacro(<<"a1", "a2", "a3", "a4">>, FALSE,
          <<"_PW_HAS_COMMA", "(",
            "_PW_HAS_COMMA_CASE_", "##", "a1", "##", "a2", "##", "a3", "##", "a4", ")">>)

_PW_HAS_NO_ARGS ==
  FnMacro(<<"a1", "a2", "a3", "a4">>, FALSE,
          <<"_PW_HAS_COMMA", "(", "_PW_PASTE_RESULTS", "(",
            "a1", ",", "a2", ",", "a3", ",", "a4", ")", ")">>)

_PW_PASTE_RESULTS ==
  FnMacro(<<"a1", "a2", "a3", "a4">>, FALSE,
          <<"_PW_HAS_COMMA_CASE_", "##", "a1", "##", "a2", "##", "a3", "##", "a4">>)

\* a faulty case table: the one registered case gives no comma
NoCaseRegistered == ObjMacro(<<>>)

_PW_HAS_COMMA_CASE_0001 == ObjMacro(<<",">>)

\* a faulty marker: called, it gives nothing
MakeNothingIfCalled == FnMacro(<<>>, TRUE, <<>>)

_PW_MAKE_COMMA_IF_CALLED == FnMacro(<<>>, TRUE, <<",">>)

PW_COMMA_ARGS ==
  FnMacro(<<>>, TRUE,
          <<"_PW_COMMA_ARGS", "(", "PW_HAS_ARGS", "(", "__VA_ARGS__", ")", ",",
            "__VA_ARGS__", ")">>)

\* a faulty dispatch: has_args pasted without the second level of expansion
PasteUnexpanded ==
  FnMacro(<<"has_args">>, TRUE,
          <<"_PW_COMMA_ARGS_", "##", "has_args", "(", "__VA_ARGS__", ")">>)

_PW_COMMA_ARGS ==
  FnMacro(<<"has_args">>, TRUE,
          <<"_PW_COMMA_ARGS_X", "(", "has_args", ",", "__VA_ARGS__", ")">>)

_PW_COMMA_ARGS_X ==
  FnMacro(<<"has_args">>, TRUE,
          <<"_PW_COMMA_ARGS_", "##", "has_args", "(", "__VA_ARGS__", ")">>)

_PW_COMMA_ARGS_0 == FnMacro(<<>>, TRUE, <<>>)

\* a faulty tail: it refers back to the macro it is expanded from
CommaArgsAgain == FnMacro(<<>>, TRUE, <<",", "PW_COMMA_ARGS", "(", "__VA_ARGS__", ")">>)

_PW_COMMA_ARGS_1 == FnMacro(<<>>, TRUE, <<",", "__VA_ARGS__">>)

(***************************************************************************)
(* pw_preprocessor/boolean.h, which the header includes: the negation      *)
(* PW_NOT with negate(0) = 1 and negate(1) = 0, its operand expanded       *)
(* before it is looked up.                                                 *)
(***************************************************************************)
PW_NOT == FnMacro(<<"value">>, FALSE, <<"_PW_NOT", "(", "value", ")">>)

_PW_NOT == FnMacro(<<"value">>, FALSE, <<"_PW_NOT_", "##", "value">>)

_PW_NOT_0 == ObjMacro(<<"1">>)

_PW_NOT_1 == ObjMacro(<<"0">>)

(***************************************************************************)
(* Function-like macros of the caller, passed by name as an argument:      *)
(* called, they give nothing, one token, a parenthesized group, an empty   *)
(* pair of parentheses, or a comma-separated list.                         *)
(***************************************************************************)
CallerMacros ==
  [F0 |-> FnMacro(<<>>, FALSE, <<>>),
   F1 |-> FnMacro(<<>>, FALSE, <<"x">>),
   FP |-> FnMacro(<<>>, FALSE, <<"(", "a", ",", "b", ")">>),
   FE |-> FnMacro(<<>>, FALSE, <<"(", ")">>),
   FC |-> FnMacro(<<>>, FALSE, <<"a", ",", "b">>)]

HeaderMacros ==
  [PW_ARG_COUNT |-> PW_ARG_COUNT,
   PW_HAS_ARGS |-> PW_HAS_ARGS,
   PW_HAS_NO_ARGS |-> PW_HAS_NO_ARGS,
   _PW_HAS_COMMA |-> _PW_HAS_COMMA,
   _PW_ARG_COUNT_IMPL |-> _PW_ARG_COUNT_IMPL,
   _PW_HAS_NO_ARGS |-> _PW_HAS_NO_ARGS,
   _PW_PASTE_RESULTS |-> _PW_PASTE_RESULTS,
   _PW_HAS_COMMA_CASE_0001 |-> _PW_HAS_COMMA_CASE_0001,
   _PW_MAKE_COMMA_IF_CALLED |-> _PW_MAKE_COMMA_IF_CALLED,
   PW_COMMA_ARGS |-> PW_COMMA_ARGS,
   _PW_COMMA_ARGS |-> _PW_COMMA_ARGS,
   _PW_COMMA_ARGS_X |-> _PW_COMMA_ARGS_X,
   _PW_COMMA_ARGS_0 |-> _PW_COMMA_ARGS_0,
   _PW_COMMA_ARGS_1 |-> _PW_COMMA_ARGS_1]

BooleanMacros ==
  [PW_NOT |-> PW_NOT, _PW_NOT |-> _PW_NOT, _PW_NOT_0 |-> _PW_NOT_0, _PW_NOT_1 |-> _PW_NOT_1]

MacroNames == DOMAIN HeaderMacros \cup DOMAIN BooleanMacros \cup DOMAIN CallerMacros

Macro(name) ==
  IF name \in DOMAIN HeaderMacros THEN HeaderMacros[name]
  ELSE IF name \in DOMAIN BooleanMacros THEN BooleanMacros[name]
  ELSE CallerMacros[name]

(***************************************************************************)
(* Scanning: the first place of a token sequence where a macro is          *)
(* replaced.  An object-like macro is replaced where it stands, a          *)
(* function-like macro only where a "(" follows; a token is never replaced *)
(* by a macro of its hide set.                                             *)
(***************************************************************************)
ExpandableAt(ts, i) ==
  /\ ts[i].s \in MacroNames
  /\ ts[i].s \notin ts[i].hs
  /\ Macro(ts[i].s).fn => (i < Len(ts) /\ ts[i + 1].s = "(")

\* a macro name met inside its own replacement: a self-reference
BlockedAt(ts, i) == ts[i].s \in MacroNames /\ ts[i].s \in ts[i].hs

FirstExpandable(ts) == First([i \in 1..Len(ts) |-> ExpandableAt(ts, i)])

NormalForm(ts) == FirstExpandable(ts) = 0

\* the nesting depth after each token of ts[lo..hi], base being the depth before lo
RECURSIVE DepthsIn(_, _, _, _)
DepthsIn(ts, lo, hi, base) ==
  IF lo > hi THEN <<>>
  ELSE IF lo = hi
       THEN <<IF ts[lo].s = "(" THEN base + 1 ELSE IF ts[lo].s = ")" THEN base - 1 ELSE base>>
  ELSE LET L == DepthsIn(ts, lo, (lo + hi) \div 2, base)
       IN  L \o DepthsIn(ts, (lo + hi) \div 2 + 1, hi, L[Len(L)])

Depths(ts) == DepthsIn(ts, 1, Len(ts), 0)

\* the ")" that closes the "(" at position open, 0 when none does (d: the depths of the tokens)
CloseAt(d, open) == First([j \in 1..Len(d) |-> j > open /\ d[j] = d[open] - 1])

\* the commas between positions open and close that no inner parentheses enclose,
\* counted from the token after open
TopCommas(ts, d, open, close) ==
  Positions([j \in 1..(close - open - 1) |-> ts[open + j].s = "," /\ d[open + j] = d[open]])

(***************************************************************************)
(* Binding the arguments of an invocation to the parameters: one argument  *)
(* per named parameter, and everything after them, commas included, is the *)
(* variadic argument.                                                      *)
(***************************************************************************)
ArityOk(def, inner, commas) ==
  LET n == Len(commas) + 1
      k == Len(def.params)
  IN  IF def.va THEN n >= k
      ELSE IF k = 0 THEN inner = <<>>
      ELSE n = k

BindArgs(def, inner, cs) ==
  LET k == Len(def.params)
      named == [j \in 1..k |->
                  SubSeq(inner, IF j = 1 THEN 1 ELSE cs[j - 1] + 1,
                                IF j = Len(cs) + 1 THEN Len(inner) ELSE cs[j] - 1)]
  IN  IF ~def.va THEN named
      ELSE IF k = 0 THEN <<inner>>
      ELSE IF Len(cs) >= k THEN Append(named, SubSeq(inner, cs[k] + 1, Len(inner)))
      ELSE Append(named, <<>>)

IsParam(def, s) ==
  \/ def.va /\ s = "__VA_ARGS__"
  \/ \E i \in 1..Len(def.params) : def.params[i] = s

ParamIndex(def, s) ==
  IF s = "__VA_ARGS__" THEN Len(def.params) + 1
  ELSE CHOOSE i \in 1..Len(def.params) : def.params[i] = s

\* an operand of ##: substituted as written, never expanded first
PasteOperand(def, i) ==
  \/ i > 1 /\ def.body[i - 1] = "##"
  \/ i < Len(def.body) /\ def.body[i + 1] = "##"

\* the arguments that are expanded before they are substituted
Needed(def) ==
  {ParamIndex(def, def.body[i]) :
     i \in {i \in 1..Len(def.body) : IsParam(def, def.body[i]) /\ ~PasteOperand(def, i)}}

(***************************************************************************)
(* Substitution and ##.  A piece is a run of tokens: mk marks the tokens   *)
(* a ## has made, bad tells that a ## was given two tokens that make none. *)
(***************************************************************************)
Piece(ts) == [ts |-> ts, mk |-> [i \in 1..Len(ts) |-> FALSE], bad |-> FALSE]

CatPieces(L, R) ==
  [ts |-> L.ts \o R.ts, mk |-> L.mk \o R.mk, bad |-> L.bad \/ R.bad]

\* word ## word is one token; a paste with a punctuator is no valid token
ValidPaste(l, r) == ~IsPunct(l) /\ ~IsPunct(r)

\* L ## R: the last token of L and the first of R become one (an empty side is a
\* placemarker); two tokens that make no valid token stay apart
PastePieces(L, R) ==
  IF L.ts = <<>> \/ R.ts = <<>> THEN CatPieces(L, R)
  ELSE LET l == L.ts[Len(L.ts)]
           r == R.ts[1]
       IN  IF ~ValidPaste(l.s, r.s)
           THEN [ts |-> L.ts \o R.ts, mk |-> L.mk \o R.mk, bad |-> TRUE]
           ELSE [ts |-> SubSeq(L.ts, 1, Len(L.ts) - 1)
                          \o <<[s |-> l.s \o r.s, hs |-> l.hs \cap r.hs]>>
                          \o Tail(R.ts),
                 mk |-> SubSeq(L.mk, 1, Len(L.mk) - 1) \o <<TRUE>> \o Tail(R.mk),
                 bad |-> L.bad \/ R.bad]

\* the replacement list with every parameter replaced by its argument
BodyPieces(def, args, exp) ==
  [i \in 1..Len(def.body) |->
     IF IsParam(def, def.body[i])
     THEN Piece(IF PasteOperand(def, i) THEN args[ParamIndex(def, def.body[i])]
                ELSE exp[ParamIndex(def, def.body[i])])
     ELSE Piece(<<Tok(def.body[i])>>)]

\* the ## operators evaluated from the left
RECURSIVE PasteLeft(_, _, _, _)
PasteLeft(def, P, i, acc) ==
  IF i > Len(P) THEN acc
  ELSE IF def.body[i] = "##" THEN PasteLeft(def, P, i + 2, PastePieces(acc, P[i + 1]))
  ELSE PasteLeft(def, P, i + 1, CatPieces(acc, P[i]))

\* the ## operators evaluated from the right
RECURSIVE PasteRight(_, _, _, _)
PasteRight(def, P, i, acc) ==
  IF i < 1 THEN acc
  ELSE IF def.body[i] = "##" THEN PasteRight(def, P, i - 2, PastePieces(P[i - 1], acc))
  ELSE PasteRight(def, P, i - 1, CatPieces(P[i], acc))

HasPaste(def) == \E i \in 1..Len(def.body) : def.body[i] = "##"

\* the replacement of an invocation; the order of evaluation of ## is the toolchain's
Substituted(def, args, exp, fromLeft) ==
  LET P == BodyPieces(def, args, exp)
  IN  IF ~HasPaste(def) THEN Piece(Flatten([i \in 1..Len(P) |-> P[i].ts]))
      ELSE IF fromLeft THEN PasteLeft(def, P, 1, Piece(<<>>))
      ELSE PasteRight(def, P, Len(P), Piece(<<>>))

\* every token of a replacement is hidden from the macro it replaces
AddHide(ts, hide) ==
  [i \in 1..Len(ts) |->
     IF ts[i].s \in MacroNames THEN [s |-> ts[i].s, hs |-> ts[i].hs \cup hide]
     ELSE Tok(ts[i].s)]

(***************************************************************************)
(* The state of one expansion.  A frame scans a token sequence: out is     *)
(* what it has passed, call the invocation it has met (its arguments       *)
(* bound, each argument to expand getting a frame of its own above it, in  *)
(* slot), rest the tokens after the invocation; err tells that what it met *)
(* is no well-formed invocation.                                           *)
(***************************************************************************)
NoCall == [name |-> "", hs |-> {}, args |-> <<>>, exp |-> <<>>, need |-> {}, done |-> {}]

NoProblem == "none"

\* the invocation at the head of ts, a function-like macro's name and a "(": whether it
\* is well formed, its arguments bound (an argument with nothing to replace is its own
\* expansion), the tokens after it
HeadOf(ts) ==
  LET def == Macro(ts[1].s)
      d == Depths(ts)
      close == CloseAt(d, 2)
      inner == SubSeq(ts, 3, close - 1)
      commas == TopCommas(ts, d, 2, close)
      ok == close # 0 /\ ArityOk(def, inner, commas)
      args == IF ok THEN BindArgs(def, inner, commas) ELSE <<>>
      need == Needed(def)
  IN  [ok |-> ok,
       call |-> [name |-> ts[1].s, hs |-> ts[1].hs, args |-> args, exp |-> args,
                 need |-> need, done |-> {i \in need : ok /\ NormalForm(args[i])}],
       after |-> SubSeq(ts, close + 1, Len(ts))]

\* an object-like macro's name is an invocation without arguments
ObjectCall(tok) == [NoCall EXCEPT !.name = tok.s, !.hs = tok.hs]

\* pass every token up to the first one that is replaced, and take the invocation there
Scan(f) ==
  LET i == FirstExpandable(f.rest)
  IN  IF i = 0 THEN [f EXCEPT !.out = @ \o f.rest, !.rest = <<>>]
      ELSE IF ~Macro(f.rest[i].s).fn
      THEN [f EXCEPT !.out = @ \o SubSeq(f.rest, 1, i - 1),
                     !.rest = SubSeq(f.rest, i + 1, Len(f.rest)),
                     !.call = ObjectCall(f.rest[i])]
      ELSE LET h == HeadOf(SubSeq(f.rest, i, Len(f.rest)))
           IN  IF h.ok
               THEN [f EXCEPT !.out = @ \o SubSeq(f.rest, 1, i - 1),
                              !.rest = h.after,
                              !.call = h.call]
               ELSE [f EXCEPT !.out = @ \o SubSeq(f.rest, 1, i - 1),
                              !.rest = SubSeq(f.rest, i, Len(f.rest)),
                              !.err = "malformed invocation"]

Frame(ts, slot) ==
  Scan([out |-> <<>>, rest |-> ts, call |-> NoCall, slot |-> slot, err |-> NoProblem])

Top == stack[Len(stack)]

Finished(f) == f.call = NoCall /\ f.rest = <<>>

\* an argument's frame that has nothing left to scan hands its tokens to the invocation
Unwind(stk) ==
  LET n == Len(stk)
  IN  IF n > 1 /\ Finished(stk[n])
      THEN SubSeq(stk, 1, n - 2)
             \o <<[stk[n - 1] EXCEPT !.call.exp[stk[n].slot] = stk[n].out,
                                     !.call.done = @ \cup {stk[n].slot}]>>
      ELSE stk

WithTop(f) == Unwind(SubSeq(stack, 1, Len(stack) - 1) \o <<f>>)

PhaseOf(stk) == IF Len(stk) = 1 /\ Finished(stk[1]) THEN "done" ELSE "run"

Output == Strs(stack[1].out)

\* a faulty readiness test: one expanded argument is taken for all
SomeArgReady(call) == call.need = {} \/ call.done # {}

\* every argument the replacement list uses outside ## is fully expanded
ArgsReady(call) == call.need \subseteq call.done

Replacement(call, fromLeft) ==
  Substituted(Macro(call.name), call.args, call.exp, fromLeft)

\* the tokens a ## of macro by has made
Made(piece, by) ==
  {[by |-> by, s |-> piece.ts[i].s] : i \in {i \in 1..Len(piece.ts) : piece.mk[i]}}

\* the stack with the top frame's invocation replaced by new tokens, rescanned with the rest
Rescan(new) == WithTop(Scan([Top EXCEPT !.rest = new \o Top.rest, !.call = NoCall]))

SelfReference(ts) == \E i \in 1..Len(ts) : BlockedAt(ts, i)

\* an invocation replaced: its replacement, hidden from the macro, before the tokens after it
Rewritten(call, fromLeft) ==
  LET r == Replacement(call, fromLeft)
      new == AddHide(r.ts, call.hs \cup {call.name}) \o <<>>
  IN  [stk |-> Rescan(new), made |-> Made(r, call.name), self |-> SelfReference(new)]

\* the invocation is replaced and the result rescanned with the tokens after it
Rewrite(call, orders) ==
  \E fromLeft \in (IF HasPaste(Macro(call.name)) THEN orders ELSE {TRUE}) :
    \E w \in {Rewritten(call, fromLeft)} :
      /\ stack' = w.stk
      /\ phase' = PhaseOf(w.stk)
      /\ pasted' = pasted \cup w.made
      /\ blocked' = (blocked \/ w.self)
      /\ steps' = steps + 1
      /\ UNCHANGED <<invocation, diag, round, prev>>

Running == phase = "run" /\ steps < MaxSteps

(***************************************************************************)
(* The steps of the preprocessor.                                          *)
(***************************************************************************)
\* an object-like macro is replaced by its replacement list
ExpandObject ==
  /\ Running /\ Top.call # NoCall
  /\ ~Macro(Top.call.name).fn
  /\ Rewrite(Top.call, {TRUE})

\* one of the arguments still to expand is scanned on its own
PreExpand(i) ==
  /\ Running /\ Top.call # NoCall
  /\ i \in Top.call.need \ Top.call.done
  /\ stack' = stack \o <<Frame(Top.call.args[i], i)>>
  /\ UNCHANGED <<invocation, phase, diag, pasted, blocked, round, prev, steps>>

\* all its arguments expanded, a function-like macro's invocation is replaced
Substitute(orders) ==
  /\ Running /\ Top.call # NoCall
  /\ Macro(Top.call.name).fn
  /\ ArgsReady(Top.call)
  /\ Rewrite(Top.call, orders)

\* a ## of the invocation is given two tokens that make no valid token
BadPaste(call) ==
  HasPaste(Macro(call.name)) /\ \E d \in BOOLEAN : Replacement(call, d).bad

\* what the preprocessor may report instead of going on
Problem(f) ==
  IF f.err # NoProblem THEN f.err
  ELSE IF f.call # NoCall /\ ArgsReady(f.call) /\ BadPaste(f.call) THEN "invalid paste"
  ELSE NoProblem

\* the translation is rejected.  Where the language leaves the behaviour open (a ## that
\* makes no valid token), rejecting is one outcome and going on, the tokens apart, the other
Diagnose ==
  /\ Running
  /\ \E p \in {Problem(Top)} :
       p # NoProblem /\ diag' = p
  /\ phase' = "failed"
  /\ UNCHANGED <<invocation, stack, pasted, blocked, round, prev, steps>>

(***************************************************************************)
(* The invocations checked.                                                *)
(***************************************************************************)
ItemKinds == {"id", "paren", "F0", "F1", "FP", "FE", "FC"}

Group == <<"(", "a", ",", "b", ")">>

\* the item at position i: an identifier, the literal i, a group, identifiers and groups
\* in turn, a macro's bare name
Item(kind, i) ==
  IF kind = "id" THEN <<"x" \o ToString(i)>>
  ELSE IF kind = "num" THEN <<ToString(i)>>
  ELSE IF kind = "paren" THEN Group
  ELSE IF kind = "alt" THEN (IF i % 2 = 1 THEN <<"x" \o ToString(i)>> ELSE Group)
  ELSE <<kind>>

Uniform(kind, n) == [i \in 1..n |-> Item(kind, i)]

MixedLists ==
  UNION {{[i \in 1..n |-> Item(ks[i], i)] : ks \in [1..n -> ItemKinds]} : n \in 1..MaxMixed}

Singles == {<<Item(k, 1)>> : k \in ItemKinds}

Bits == {"0", "1"}

\* what a probe can hand to the lookup: a bit, or past the ceiling an item of the input
Results == {<<"0">>, <<"1">>, Group}

Invocations ==
  {[macro |-> m, items |-> Uniform(k, n)] :
     m \in {"PW_ARG_COUNT", "_PW_HAS_COMMA"}, k \in {"id", "num", "paren", "alt"},
     n \in 0..MaxArgs}
  \cup {[macro |-> m, items |-> Uniform("alt", n)] :
     m \in {"PW_HAS_ARGS", "PW_HAS_NO_ARGS", "PW_COMMA_ARGS"}, n \in 0..MaxArgs}
  \cup {[macro |-> "PW_ARG_COUNT", items |-> l] : l \in MixedLists}
  \cup {[macro |-> m, items |-> l] :
     m \in {"_PW_HAS_COMMA", "PW_HAS_ARGS", "PW_HAS_NO_ARGS", "PW_COMMA_ARGS"}, l \in Singles}
  \cup {[macro |-> "_PW_HAS_NO_ARGS", items |-> l] : l \in UNION {[1..n -> Results] : n \in 3..4}}

Invoked(inv) == Toks(<<inv.macro, "(">> \o JoinItems(inv.items) \o <<")">>) \o <<>>

Start(inv) ==
  /\ invocation = inv
  /\ stack = <<Frame(Invoked(inv), 0)>>
  /\ phase = "run"
  /\ diag = NoProblem
  /\ pasted = {}
  /\ blocked = FALSE
  /\ round = 1
  /\ prev = <<>>
  /\ steps = 0

Init == \E inv \in Invocations : Start(inv)

Pending == Top.call.need \ Top.call.done

\* the toolchain's order: arguments expanded and ## evaluated from left to right
Next ==
  \/ ExpandObject
  \/ \E i \in Pending : PreExpand(i) /\ \A j \in Pending : i <= j
  \/ Substitute({TRUE})
  \/ Diagnose

Spec == Init /\ [][Next]_vars

\* the same invocation is expanded a second time
ReExpand ==
  /\ phase = "done" /\ round = 1
  /\ round' = 2
  /\ prev' = Output
  /\ stack' = <<Frame(Invoked(invocation), 0)>>
  /\ phase' = "run"
  /\ pasted' = {}
  /\ steps' = 0
  /\ UNCHANGED <<invocation, diag, blocked>>

InitTwice == \E inv \in Invocations : Len(inv.items) <= MaxTwice /\ Start(inv)

\* any order of expanding the arguments and of evaluating ##, and the expansion repeated
NextTwice ==
  \/ ExpandObject
  \/ \E i \in Pending : PreExpand(i)
  \/ Substitute(BOOLEAN)
  \/ Diagnose
  \/ ReExpand

SpecTwice == InitTwice /\ [][NextTwice]_vars

(***************************************************************************)
(* The properties of the header.                                           *)
(***************************************************************************)
M == invocation.macro

N == Len(invocation.items)

Done == phase = "done"

NoDiagnostic == phase # "failed" /\ diag = NoProblem

Public == {"PW_ARG_COUNT", "PW_HAS_ARGS", "PW_HAS_NO_ARGS", "PW_COMMA_ARGS"}

\* every item is one token that is neither a punctuator nor a macro's name
Plain == \A i \in 1..N : Len(invocation.items[i]) = 1 /\ invocation.items[i][1] \notin MacroNames

\* every item is a plain token or a parenthesized group
PlainOrGroup ==
  \A i \in 1..N : invocation.items[i] = Group
                    \/ (Len(invocation.items[i]) = 1 /\ invocation.items[i][1] \notin MacroNames)

Literal(n) == <<ToString(n)>>

\* the invocation of macro with the items of this invocation, as it is written
Written(macro) == <<macro, "(">> \o JoinItems(invocation.items) \o <<")">>

\* the frames in which all four probes have been expanded for the lookup
ProbeFrames ==
  {k \in 1..Len(stack) : stack[k].call.name = "_PW_HAS_NO_ARGS" /\ stack[k].call.done = 1..4}

ProbeBits(k) == [i \in 1..4 |-> Strs(stack[k].call.exp[i])]

PastedBy(by) == {p.s : p \in {q \in pasted : q.by = by}}

Keys == {"_PW_HAS_COMMA_CASE_" \o b[1] \o b[2] \o b[3] \o b[4] : b \in [1..4 -> Bits]}

\* C1: PW_ARG_COUNT of n plain arguments, n from 0 to 64, never fails and ends as the
\* literal n; the count slot of _PW_ARG_COUNT_IMPL holds the sentinel n for n >= 2 and the
\* invocation PW_HAS_ARGS(arguments) for n <= 1, which then decides between 0 and 1.
C1_CountsPlainArguments ==
  (M = "PW_ARG_COUNT" /\ N <= MaxCount /\ Plain) =>
    /\ NoDiagnostic
    /\ Done => Output = Literal(N)
    /\ stack[1].call.name = "_PW_ARG_COUNT_IMPL" =>
         Strs(stack[1].call.args[MaxCount + 1]) =
           IF N >= 2 THEN Literal(N) ELSE Written("PW_HAS_ARGS")
    /\ N >= 2 => Len(stack) = 1 /\ pasted = {}

C1_Witness ==
  /\ M = "PW_ARG_COUNT" /\ N = MaxCount /\ Plain
  /\ Done /\ Output = Literal(MaxCount) /\ steps = 2

\* C2: with n arguments, n from 0 to 64, PW_HAS_ARGS never fails and ends as exactly 0 for
\* n = 0 and exactly 1 for 1 <= n <= 64, and PW_HAS_NO_ARGS ends as the opposite bit.
C2_HasArgsBit ==
  (M \in {"PW_HAS_ARGS", "PW_HAS_NO_ARGS"} /\ N <= MaxCount) =>
    /\ NoDiagnostic
    /\ Done => Output = Literal(IF (M = "PW_HAS_ARGS") = (N = 0) THEN 0 ELSE 1)

C2_Witness ==
  /\ M = "PW_HAS_ARGS" /\ N = MaxCount
  /\ Done /\ Output = Literal(1)

\* C3: within the 0 to 64 items of its interface PW_COMMA_ARGS never fails; it ends as
\* nothing for an empty list and as one comma followed by the same items in the same order
\* otherwise, and the token its dispatch pastes is always _PW_COMMA_ARGS_0 or
\* _PW_COMMA_ARGS_1.
C3_CommaThenItems ==
  (M = "PW_COMMA_ARGS" /\ N <= MaxCount) =>
    /\ NoDiagnostic
    /\ Done => Output = (IF N = 0 THEN <<>> ELSE <<",">> \o JoinItems(invocation.items))
    /\ Done => PastedBy("_PW_COMMA_ARGS_X") # {}
    /\ PastedBy("_PW_COMMA_ARGS_X") \subseteq {"_PW_COMMA_ARGS_0", "_PW_COMMA_ARGS_1"}

C3_Witness ==
  /\ M = "PW_COMMA_ARGS" /\ N = MaxCount
  /\ Done /\ PastedBy("_PW_COMMA_ARGS_X") = {"_PW_COMMA_ARGS_1"}

\* C4: PW_ARG_COUNT of n arguments, n from 0 to 64, each a plain token or a parenthesized
\* group with a comma inside, never fails and ends as n; and whenever the four probes of a
\* single parenthesized argument have been expanded they are 0, 1, 0, 1.
C4_GroupsCountOnce ==
  /\ (M = "PW_ARG_COUNT" /\ N <= MaxCount /\ PlainOrGroup) =>
       NoDiagnostic /\ (Done => Output = Literal(N))
  /\ (M \in Public /\ invocation.items = <<Group>>) =>
       \A k \in ProbeFrames : ProbeBits(k) = <<Literal(0), Literal(1), Literal(0), Literal(1)>>

C4_Witness ==
  /\ M = "PW_ARG_COUNT" /\ invocation.items = <<Group>>
  /\ ProbeFrames # {}

\* C5: PW_ARG_COUNT and PW_HAS_ARGS of the bare name of a function-like macro never fail
\* and end as exactly 1, whatever the macro gives when it is called.
C5_BareMacroName ==
  (M \in {"PW_ARG_COUNT", "PW_HAS_ARGS"} /\ N = 1 /\ Len(invocation.items[1]) = 1
     /\ invocation.items[1][1] \in DOMAIN CallerMacros) =>
    NoDiagnostic /\ (Done => Output = Literal(1))

C5_Witness ==
  /\ M = "PW_ARG_COUNT" /\ invocation.items = <<<<"FC">>>>
  /\ Done /\ Output = Literal(1)

\* C6 as the specification states it: PW_ARG_COUNT of more than 64 arguments never fails
\* and ends as something other than the number of arguments.
C6_AlwaysWrongCount ==
  (M = "PW_ARG_COUNT" /\ N > MaxCount) =>
    NoDiagnostic /\ (Done => Output # Literal(N))

\* C6: PW_ARG_COUNT of more than 64 arguments never fails and ends as the 65th argument of
\* the invocation itself, whatever that argument is (so the result is the number of
\* arguments only if the 65th argument happens to be that literal).
C6_YieldsOwnArgument ==
  (M = "PW_ARG_COUNT" /\ N > MaxCount) =>
    NoDiagnostic /\ (Done => Output = invocation.items[MaxCount + 1])

C6_Witness ==
  /\ M = "PW_ARG_COUNT" /\ N = MaxCount + 1
  /\ Done /\ Output = Literal(MaxCount + 1)

\* the guards of the steps: an invocation to replace or to expand an argument of, or a
\* malformed one to reject
CanStep == Running /\ (Top.call # NoCall \/ Top.err # NoProblem)

\* C7: the expansion of PW_ARG_COUNT, PW_HAS_ARGS, PW_HAS_NO_ARGS and PW_COMMA_ARGS never
\* meets a macro inside its own replacement (no macro refers to itself), takes fewer than
\* MaxSteps replacements, and goes on until nothing is left to replace: while it has not
\* ended, a step is possible.
C7_Terminates ==
  M \in Public =>
    /\ ~blocked
    /\ steps < MaxSteps
    /\ phase = "run" => CanStep

C7_Witness ==
  /\ M = "PW_COMMA_ARGS" /\ N = MaxCount
  /\ Done /\ steps > 20

C9_LookupOfPattern ==
  /\ (M = "_PW_HAS_NO_ARGS" /\ N = 4
        /\ \A i \in 1..N : invocation.items[i] \in {Literal(0), Literal(1)}) =>
       /\ NoDiagnostic
       /\ Done => Output = Literal(IF invocation.items
                                        = <<Literal(0), Literal(0), Literal(0), Literal(1)>>
                                   THEN 1 ELSE 0)
       /\ PastedBy("_PW_PASTE_RESULTS") \subseteq Keys
       /\ Done => PastedBy("_PW_PASTE_RESULTS") # {}
  /\ (M \in Public /\ N <= MaxCount) =>
       PastedBy("_PW_PASTE_RESULTS") \subseteq Keys
  /\ (M \in {"PW_HAS_ARGS", "PW_HAS_NO_ARGS", "PW_COMMA_ARGS"} /\ N <= MaxCount /\ Done) =>
       PastedBy("_PW_PASTE_RESULTS") # {}
  /\ (M \in Public /\ N = 0) =>
       \A k \in ProbeFrames : ProbeBits(k) = <<Literal(0), Literal(0), Literal(0), Literal(1)>>

C9_Witness ==
  /\ M = "_PW_HAS_NO_ARGS"
  /\ invocation.items = <<Literal(0), Literal(0), Literal(0), Literal(1)>>
  /\ Done /\ Output = Literal(1)
  /\ PastedBy("_PW_PASTE_RESULTS") = {"_PW_HAS_COMMA_CASE_0001"}

\* C10: _PW_HAS_COMMA never fails; it ends as 0 for an input of one item, the empty input
\* included, as 1 for an input of 2 to 64 items, and for an input of 65 items or more as
\* the 65th item of the input.
C10_HasComma ==
  M = "_PW_HAS_COMMA" =>
    /\ NoDiagnostic
    /\ Done => Output = (IF N <= 1 THEN Literal(0)
                         ELSE IF N <= MaxCount THEN Literal(1)
                         ELSE invocation.items[MaxCount + 1])

C10_Witness ==
  /\ M = "_PW_HAS_COMMA" /\ N = MaxCount + 1
  /\ Done /\ Output = <<"x65">>

====
